---- MODULE Spec2Model ----
(***************************************************************************)
(* The professor-query route handler (src/app/api/prof-query/route.ts):    *)
(* one request moving through POST, one step per await boundary.  The      *)
(* collaborators (rewrite/answer model, embedding service, vector index)   *)
(* are the environment: each reply is a nondeterministic choice.           *)
(***************************************************************************)
EXTENDS Integers, Sequences, FiniteSets, TLC

VARIABLES
    pc,                 \* where POST is suspended: start | rewrite | embed | route |
                        \*   scoped | broaden | generate | done
    body,               \* the parsed request body (req.json())
    rewrittenQuestion,  \* const rewrittenQuestion
    qVec,               \* const qVec
    docIds,             \* const docIds
    chunkMatches,       \* let chunkMatches
    picked,             \* const picked
    calls,              \* outbound calls issued so far, in order
    replies,            \* replies[i] is what calls[i] returned or threw
    responses,          \* the NextResponse values the handler returned
    other,              \* a second request suspended at an await, if there is one
    page                \* the chat page's state: input, messages, loading, error

vars == <<pc, body, rewrittenQuestion, qVec, docIds, chunkMatches, picked,
          calls, replies, responses, other, page>>

-----------------------------------------------------------------------------
(* Bounds of the model *)

MaxTurns == 2       \* longest conversation in a request body
NChunks == 10       \* chunk-kind records the index holds
MaxPool == 9        \* longest candidate pool given to the selection alone
MaxTalk == 13       \* longest conversation given to the rewriter alone
MaxAsked == 3       \* questions the user sends from the chat page
MaxRun == 222       \* longest run of letters in a passage text given to shorten

(* Program constants *)

RouteTopK == 3
ChunkTopK == 12
BroadenBelow == 3
PickMax == 8
HistoryMax == 12
ShortenMax == 220
LegacyShortenMax == 200
EmbedDims == 512
StatusBadRequest == 400
StatusServerError == 500
StatusOk == 200

-----------------------------------------------------------------------------
(* Text: a string that the code trims or cuts is a sequence of characters *)

IsSpace(c) == c \in {" ", "\t", "\n"}

Min(a, b) == IF a <= b THEN a ELSE b
Max(a, b) == IF a >= b THEN a ELSE b

Take(s, n) == SubSeq(s, 1, Min(n, Len(s)))

\* the positions of s that hold something other than whitespace
Inked(s) == {i \in 1..Len(s) : ~IsSpace(s[i])}

TrimLeft(s) ==
    IF Inked(s) = {} THEN <<>>
    ELSE SubSeq(s, CHOOSE i \in Inked(s) : \A j \in 1..(i - 1) : IsSpace(s[j]), Len(s))

TrimRight(s) ==
    IF Inked(s) = {} THEN <<>>
    ELSE SubSeq(s, 1, CHOOSE i \in Inked(s) : \A j \in (i + 1)..Len(s) : IsSpace(s[j]))

\* String.prototype.trim
Trim(s) == TrimRight(TrimLeft(s))

\* text.replace(/\s+/g, " "): every run of whitespace becomes one space
CollapseSpaces(s) ==
    LET marked == [i \in 1..Len(s) |->
                      IF ~IsSpace(s[i]) THEN s[i]
                      ELSE IF i > 1 /\ IsSpace(s[i - 1]) THEN "" ELSE " "]
    IN  SelectSeq(marked, LAMBDA c : c # "")

\* shorten that cuts at max and then appends the dots
shortenNoRoom(text, max) ==
    LET clean == Trim(CollapseSpaces(text))
    IN  IF Len(clean) <= max THEN clean
        ELSE SubSeq(clean, 1, max) \o <<".", ".", ".">>

\* shorten(text, max)
shorten(text, max) ==
    LET clean == Trim(CollapseSpaces(text))
    IN  IF Len(clean) <= max THEN clean
        ELSE SubSeq(clean, 1, Max(max - 3, 0)) \o <<".", ".", ".">>

\* shorten of the older handler: an empty text gives ''
shortenLegacy(text, max) ==
    IF text = <<>> THEN <<>>
    ELSE LET clean == Trim(CollapseSpaces(text))
         IN  IF Len(clean) <= max THEN clean
             ELSE SubSeq(clean, 1, Max(max - 3, 0)) \o <<".", ".", ".">>

-----------------------------------------------------------------------------
(* JavaScript values that reach the handler *)

Str(s) == [t |-> "string", s |-> s]
Null == [t |-> "null", s |-> <<>>]
Num == [t |-> "number", s |-> <<>>]

IsString(v) == v.t = "string"

Roles == {"user", "assistant"}
Contents == {Str(<<" ">>), Str(<<" ", "q">>), Num}
Turns == [role : Roles, content : Contents]

\* the request: req.json() throws, or gives a body whose messages is an array
\* of turns or no array at all
Bodies ==
    {[json |-> FALSE, isArray |-> FALSE, messages |-> <<>>],
     [json |-> TRUE, isArray |-> FALSE, messages |-> <<>>]}
    \cup {[json |-> TRUE, isArray |-> TRUE, messages |-> m] :
            m \in UNION {[1..n -> Turns] : n \in 0..MaxTurns}}

\* what an awaited call does: it returns a value or it throws
Return(v) == [threw |-> FALSE, value |-> v]
Throw(e) == [threw |-> TRUE, error |-> e]

\* values a collaborator can throw: an Error with a message, or something else
Thrown == {[isError |-> TRUE, message |-> "upstream failure"],
           [isError |-> FALSE, message |-> ""]}
TypeError == [isError |-> TRUE, message |-> "Cannot read properties of undefined"]
SyntaxError == [isError |-> TRUE, message |-> "Unexpected end of JSON input"]

Failures == {[kind |-> "error", error |-> e] : e \in Thrown}

-----------------------------------------------------------------------------
(* The collaborators' replies *)

\* the chat model's reply to the rewrite call and to the answer call:
\* choices[0]?.message?.content is missing (null) or a text
Completions == {[kind |-> "ok", content |-> c] :
                  c \in {Null, Str(<<" ">>), Str(<<"q", " ">>)}}

RewriteReplies == Failures \cup Completions
GenerateReplies == Failures \cup Completions

\* the embedding of a text; emb.data is empty when hasData is FALSE
Embedding(text) == [dims |-> EmbedDims, of |-> text]
EmbedReplies(input) ==
    Failures \cup {[kind |-> "ok", hasData |-> TRUE, embedding |-> Embedding(input)],
                   [kind |-> "ok", hasData |-> FALSE, embedding |-> <<>>]}

\* the index holds summaries and chunks; a record's metadata as ingestion wrote it
Docs == <<"d1", "d2", "d3">>
Blocks == <<"", "bio", "research", "bio", "contact">>

ChunkMetadata(i) ==
    [kind |-> "profile_chunk",
     doc_id |-> Docs[(i % Len(Docs)) + 1],
     chunk_block |-> Blocks[(i % Len(Blocks)) + 1],
     chunkBlock |-> "",
     professor |-> IF i % 2 = 0 THEN "Prof. A" ELSE "",
     professorName |-> "",
     source_url |-> IF i % 4 = 0 THEN "" ELSE "https://tum.example/p",
     url |-> "",
     text |-> IF i % 2 = 0 THEN <<"q", " ", " ", "q">> ELSE <<"q">>]

SummaryMetadata(d) ==
    [kind |-> "profile_summary", doc_id |-> d, chunk_block |-> "", chunkBlock |-> "",
     professor |-> "", professorName |-> "", source_url |-> "", url |-> "",
     text |-> <<"q">>]

\* the summaries by similarity to the query: the doc_id of each, "" when it has none
SummaryRankings == {<<"d1", "d2", "">>, <<"d2", "d2", "d1">>}

\* the chunk ids by similarity to the query
ChunkRanking == [i \in 1..NChunks |-> i]

Hit(id, rank, md) == [id |-> id, score |-> 100 - rank, metadata |-> md]

\* the ranked records that pass a query's metadata filter
Ranked(filter) ==
    IF filter.kind = "profile_summary"
    THEN {[k \in 1..Len(r) |-> Hit(k, k, SummaryMetadata(r[k]))] : r \in SummaryRankings}
    ELSE {SelectSeq([k \in 1..NChunks |-> Hit(ChunkRanking[k], k, ChunkMetadata(ChunkRanking[k]))],
                    LAMBDA h : filter.hasDocIds =>
                        \E i \in 1..Len(filter.docIds) :
                            filter.docIds[i] = h.metadata.doc_id)}

\* the index answers a query with the top n of the ranked records, n <= topK
\* (how many it holds is unknown), with a response that has no matches, or it fails
IndexReplies(q) ==
    Failures
    \cup {[kind |-> "ok", hasMatches |-> FALSE, matches |-> <<>>]}
    \cup {[kind |-> "ok", hasMatches |-> TRUE, matches |-> Take(r, n)] :
            r \in Ranked(q.filter), n \in 0..q.topK}

-----------------------------------------------------------------------------
(* The handler's functions *)

\* a || b on strings: the first when it is non-empty, else the second
OrElse(a, b) == IF a # "" THEN a ELSE b

\* embedQuery: the awaited call's outcome, then emb.data[0].embedding
embedQuery(reply) ==
    IF reply.kind = "error" THEN Throw(reply.error)
    ELSE IF ~reply.hasData THEN Throw(TypeError)
    ELSE Return(reply.embedding)

\* pineconeQuery with a failed query taken for an empty result
pineconeQuerySwallow(reply) ==
    IF reply.kind = "error"
    THEN Return([kind |-> "ok", hasMatches |-> FALSE, matches |-> <<>>])
    ELSE Return(reply)

\* pineconeQuery: what the awaited index.query(payload) returned or threw
pineconeQuery(reply) ==
    IF reply.kind = "error" THEN Throw(reply.error) ELSE Return(reply)

\* res?.matches || []
MatchesOrEmpty(res) == IF res.hasMatches THEN res.matches ELSE <<>>

\* History that keeps the oldest turns
HistoryOldest(messages) == SubSeq(messages, 1, Min(Len(messages), HistoryMax))

\* messages.slice(-12).map(...)
History(messages) ==
    SubSeq(messages, Max(Len(messages) - HistoryMax, 0) + 1, Len(messages))

\* rewriteToStandalone: content?.trim() || last?.content || ""
rewriteToStandalone(messages, reply) ==
    IF reply.kind = "error" THEN Throw(reply.error)
    ELSE LET out == IF IsString(reply.content) THEN Trim(reply.content.s) ELSE <<>>
             last == messages[Len(messages)].content
         IN  Return(IF out # <<>> THEN out
                    ELSE IF IsString(last) THEN last.s ELSE <<>>)

\* askLLM with a failed call taken for an empty answer
askLLMSwallow(reply) ==
    Return(IF reply.kind = "ok" /\ IsString(reply.content)
           THEN Trim(reply.content.s) ELSE <<>>)

\* askLLM: content?.trim() || ""
askLLM(reply) ==
    IF reply.kind = "error" THEN Throw(reply.error)
    ELSE Return(IF IsString(reply.content) THEN Trim(reply.content.s) ELSE <<>>)

\* matchesToClient over the matches sorted by descending score
matchesToClientByScore(matches) ==
    LET sorted == CHOOSE p \in [1..Len(matches) -> 1..Len(matches)] :
                    /\ \A i, j \in 1..Len(matches) : i # j => p[i] # p[j]
                    /\ \A i, j \in 1..Len(matches) :
                         i < j => matches[p[i]].score >= matches[p[j]].score
    IN  [i \in 1..Len(matches) |->
            LET md == matches[sorted[i]].metadata
            IN  [score |-> matches[sorted[i]].score,
                 professor |-> OrElse(OrElse(md.professor, md.professorName), "(unknown)"),
                 url |-> OrElse(md.source_url, md.url),
                 chunkBlock |-> OrElse(md.chunk_block, md.chunkBlock),
                 snippet |-> shorten(md.text, ShortenMax)]]

\* matchesToClient
matchesToClient(matches) ==
    [i \in 1..Len(matches) |->
        LET md == matches[i].metadata
        IN  [score |-> matches[i].score,
             professor |-> OrElse(OrElse(md.professor, md.professorName), "(unknown)"),
             url |-> OrElse(md.source_url, md.url),
             chunkBlock |-> OrElse(md.chunk_block, md.chunkBlock),
             snippet |-> shorten(md.text, ShortenMax)]]

\* buildContext: one record per match, numbered [#i]; an empty section or
\* source line is left out
buildContext(matches) ==
    [i \in 1..Len(matches) |->
        LET md == matches[i].metadata
        IN  [number |-> i,
             professor |-> OrElse(OrElse(md.professor, md.professorName), "Unknown"),
             section |-> md.chunk_block,
             source |-> OrElse(md.source_url, md.url),
             text |-> md.text]]

\* ValidLast without the trim: !last.content
ValidLastNoTrim(last) ==
    /\ last.role = "user"
    /\ IsString(last.content)
    /\ last.content.s # <<>>

\* the last message is a user message with non-empty trimmed string content
ValidLast(last) ==
    /\ last.role = "user"
    /\ IsString(last.content)
    /\ Trim(last.content.s) # <<>>

\* summaryMatches.map(m => m?.metadata?.doc_id).filter(Boolean)
ReferencedDocIds(summaryMatches) ==
    SelectSeq([i \in 1..Len(summaryMatches) |-> summaryMatches[i].metadata.doc_id],
              LAMBDA d : d # "")

\* Array.from(new Set(array)): the first occurrence of each element, in order
ArrayFromSet(array) ==
    LET firsts == {i \in 1..Len(array) : \A j \in 1..(i - 1) : array[j] # array[i]}
        marked == [i \in 1..Len(array) |-> IF i \in firsts THEN array[i] ELSE ""]
    IN  SelectSeq(marked, LAMBDA d : d # "")

\* RoutedDocIds without the Set
RoutedDocIdsWithRepeats(summaryMatches) == ReferencedDocIds(summaryMatches)

\* const docIds
RoutedDocIds(summaryMatches) == ArrayFromSet(ReferencedDocIds(summaryMatches))

\* chunkFilter
ChunkFilter(ids) ==
    IF Len(ids) > 0
    THEN [kind |-> "profile_chunk", hasDocIds |-> TRUE, docIds |-> ids]
    ELSE [kind |-> "profile_chunk", hasDocIds |-> FALSE, docIds |-> <<>>]

SummaryFilter == [kind |-> "profile_summary", hasDocIds |-> FALSE, docIds |-> <<>>]
BroadFilter == [kind |-> "profile_chunk", hasDocIds |-> FALSE, docIds |-> <<>>]

\* NeedBroaden that does not look at the routed docIds
NeedBroadenAnyRoute(ids, matches) == Len(matches) < BroadenBelow

\* NeedBroaden with <= in place of <
NeedBroadenAtMost(ids, matches) == Len(ids) > 0 /\ Len(matches) <= BroadenBelow

\* docIds.length > 0 && chunkMatches.length < 3
NeedBroaden(ids, matches) == Len(ids) > 0 /\ Len(matches) < BroadenBelow

\* BroadenedPool that keeps a non-empty scoped result
BroadenedPoolKeepScoped(broadenRes, scoped) ==
    IF broadenRes.hasMatches /\ scoped = <<>> THEN broadenRes.matches ELSE scoped

\* chunkMatches = broadenRes?.matches || chunkMatches
BroadenedPool(broadenRes, scoped) ==
    IF broadenRes.hasMatches THEN broadenRes.matches ELSE scoped

InSeq(x, s) == \E i \in 1..Len(s) : s[i] = x

\* Pass1 without the length check
RECURSIVE Pass1NoCap(_, _, _)
Pass1NoCap(rest, acc, seenBlocks) ==
    IF rest = <<>> THEN acc
    ELSE LET m == Head(rest)
             block == m.metadata.chunk_block
         IN  IF block = "" \/ block \notin seenBlocks
             THEN Pass1NoCap(Tail(rest), Append(acc, m),
                             IF block # "" THEN seenBlocks \cup {block} ELSE seenBlocks)
             ELSE Pass1NoCap(Tail(rest), acc, seenBlocks)

\* Pass1 that leaves a match without a block to the second loop
RECURSIVE Pass1SkipEmpty(_, _, _)
Pass1SkipEmpty(rest, acc, seenBlocks) ==
    IF rest = <<>> \/ Len(acc) >= PickMax THEN acc
    ELSE LET m == Head(rest)
             block == m.metadata.chunk_block
         IN  IF block # "" /\ block \notin seenBlocks
             THEN Pass1SkipEmpty(Tail(rest), Append(acc, m), seenBlocks \cup {block})
             ELSE Pass1SkipEmpty(Tail(rest), acc, seenBlocks)

\* Pass1 that records the empty block as seen like any other
RECURSIVE Pass1SeenEmpty(_, _, _)
Pass1SeenEmpty(rest, acc, seenBlocks) ==
    IF rest = <<>> \/ Len(acc) >= PickMax THEN acc
    ELSE LET m == Head(rest)
             block == m.metadata.chunk_block
         IN  IF block \notin seenBlocks
             THEN Pass1SeenEmpty(Tail(rest), Append(acc, m), seenBlocks \cup {block})
             ELSE Pass1SeenEmpty(Tail(rest), acc, seenBlocks)

\* Pass1 that never records a block as seen
RECURSIVE Pass1NoSeen(_, _, _)
Pass1NoSeen(rest, acc, seenBlocks) ==
    IF rest = <<>> \/ Len(acc) >= PickMax THEN acc
    ELSE Pass1NoSeen(Tail(rest), Append(acc, Head(rest)), seenBlocks)

\* the first loop: a match is taken when its block is empty or not seen yet
RECURSIVE Pass1(_, _, _)
Pass1(rest, acc, seenBlocks) ==
    IF rest = <<>> \/ Len(acc) >= PickMax THEN acc
    ELSE LET m == Head(rest)
             block == m.metadata.chunk_block
         IN  IF block = "" \/ block \notin seenBlocks
             THEN Pass1(Tail(rest), Append(acc, m),
                        IF block # "" THEN seenBlocks \cup {block} ELSE seenBlocks)
             ELSE Pass1(Tail(rest), acc, seenBlocks)

\* Pass2 without the picked.includes check
RECURSIVE Pass2ReAdd(_, _)
Pass2ReAdd(rest, acc) ==
    IF rest = <<>> \/ Len(acc) >= PickMax THEN acc
    ELSE Pass2ReAdd(Tail(rest), Append(acc, Head(rest)))

\* Pass2 without the length check
RECURSIVE Pass2NoCap(_, _)
Pass2NoCap(rest, acc) ==
    IF rest = <<>> THEN acc
    ELSE Pass2NoCap(Tail(rest),
                    IF InSeq(Head(rest), acc) THEN acc ELSE Append(acc, Head(rest)))

\* the second loop: every match not picked yet, while there is room
RECURSIVE Pass2(_, _)
Pass2(rest, acc) ==
    IF rest = <<>> \/ Len(acc) >= PickMax THEN acc
    ELSE Pass2(Tail(rest),
               IF InSeq(Head(rest), acc) THEN acc ELSE Append(acc, Head(rest)))

\* pick up to 8 chunks; prefer diverse sections
Pick(matches) == Pass2(matches, Pass1(matches, <<>>, {}))

\* "I could not find relevant information in the indexed professor profiles
\* for that question."
NothingFoundText ==
    <<"I", " ", "c", "o", "u", "l", "d", " ", "n", "o", "t", " ",
      "f", "i", "n", "d", " ", "r", "e", "l", "e", "v", "a", "n",
      "t", " ", "i", "n", "f", "o", "r", "m", "a", "t", "i", "o",
      "n", " ", "i", "n", " ", "t", "h", "e", " ", "i", "n", "d",
      "e", "x", "e", "d", " ", "p", "r", "o", "f", "e", "s", "s",
      "o", "r", " ", "p", "r", "o", "f", "i", "l", "e", "s", " ",
      "f", "o", "r", " ", "t", "h", "a", "t", " ", "q", "u", "e",
      "s", "t", "i", "o", "n", ".">>

\* NextResponse.json(body, {status})
JsonResponse(b, status) == [status |-> status, body |-> b]

\* the nothing-found response sent as a 404
NothingFoundResponse404(question) ==
    JsonResponse([answer |-> NothingFoundText, matches |-> <<>>,
                  rewrittenQuestion |-> question], 404)

NothingFoundResponse(question) ==
    JsonResponse([answer |-> NothingFoundText, matches |-> <<>>,
                  rewrittenQuestion |-> question], StatusOk)

\* AnswerResponse that reports the question trimmed
AnswerResponseTrimmed(answer, matches, question) ==
    JsonResponse([answer |-> answer, matches |-> matchesToClient(matches),
                  rewrittenQuestion |-> Trim(question)], StatusOk)

AnswerResponse(answer, matches, question) ==
    JsonResponse([answer |-> answer, matches |-> matchesToClient(matches),
                  rewrittenQuestion |-> question], StatusOk)

\* the catch block's response
CatchResponse(err) ==
    JsonResponse([error |-> IF err.isError THEN err.message ELSE "Internal server error"],
                 StatusServerError)

-----------------------------------------------------------------------------
(* POST, one action per stretch of code between two awaits *)

\* the handler is serving one request only
NoRequest == [pc |-> "none"]

\* the request does not come from the chat page
NoPage == [loading |-> FALSE]

Init ==
    /\ pc = "start"
    /\ body \in Bodies
    /\ rewrittenQuestion = <<>>
    /\ qVec = <<>>
    /\ docIds = <<>>
    /\ chunkMatches = <<>>
    /\ picked = <<>>
    /\ calls = <<>>
    /\ replies = <<>>
    /\ responses = <<>>
    /\ other = NoRequest
    /\ page = NoPage

\* return NextResponse.json(...): the handler is finished
Respond(r) ==
    /\ responses' = Append(responses, r)
    /\ pc' = "done"

\* an outbound call is issued and the handler waits for it
Await(call, at) ==
    /\ calls' = Append(calls, call)
    /\ pc' = at

RewriteCall(messages) == [kind |-> "rewrite", history |-> History(messages)]
EmbedCall(q) == [kind |-> "embed", input |-> q]
IndexCall(vector, topK, filter) ==
    [kind |-> "index", vector |-> vector, topK |-> topK, filter |-> filter]
GenerateCall(question, context) ==
    [kind |-> "generate", question |-> question, context |-> context]

\* lines 168-188: parse, validate, then call the rewriter
Validate ==
    /\ pc = "start"
    /\ UNCHANGED <<page, other, body, rewrittenQuestion, qVec, docIds, chunkMatches, picked, replies>>
    /\ IF ~body.json
       THEN Respond(CatchResponse(SyntaxError)) /\ UNCHANGED calls
       ELSE IF ~body.isArray \/ Len(body.messages) = 0
       THEN /\ Respond(JsonResponse(
                   [error |-> "Missing or invalid \"messages\" array in body"],
                   StatusBadRequest))
            /\ UNCHANGED calls
       ELSE IF ~ValidLast(body.messages[Len(body.messages)])
       THEN /\ Respond(JsonResponse(
                   [error |-> "The last message must be a user message with non-empty \"content\"."],
                   StatusBadRequest))
            /\ UNCHANGED calls
       ELSE Await(RewriteCall(body.messages), "rewrite") /\ UNCHANGED responses

\* lines 188-191: the rewrite call returned or threw
RewriteReturns ==
    /\ pc = "rewrite"
    /\ \E reply \in RewriteReplies :
         LET r == rewriteToStandalone(body.messages, reply)
         IN  /\ replies' = Append(replies, reply)
             /\ IF r.threw
                THEN /\ Respond(CatchResponse(r.error))
                     /\ UNCHANGED <<calls, rewrittenQuestion>>
                ELSE /\ rewrittenQuestion' = r.value
                     /\ Await(EmbedCall(r.value), "embed")
                     /\ UNCHANGED responses
    /\ UNCHANGED <<page, other, body, qVec, docIds, chunkMatches, picked>>

\* EmbedReturns that sends the routing query and the chunk query together
EmbedReturnsPrefetch ==
    /\ pc = "embed"
    /\ \E reply \in EmbedReplies(calls[Len(calls)].input) :
         LET r == embedQuery(reply)
         IN  /\ replies' = Append(replies, reply)
             /\ IF r.threw
                THEN /\ Respond(CatchResponse(r.error))
                     /\ UNCHANGED <<calls, qVec>>
                ELSE /\ qVec' = r.value
                     /\ calls' = calls \o <<IndexCall(r.value, ChunkTopK, BroadFilter),
                                            IndexCall(r.value, RouteTopK, SummaryFilter)>>
                     /\ pc' = "route"
                     /\ UNCHANGED responses
    /\ UNCHANGED <<page, other, body, rewrittenQuestion, docIds, chunkMatches, picked>>

\* EmbedReturns that sends the embedding call a second time when it fails
EmbedReturnsRetry ==
    /\ pc = "embed"
    /\ \E reply \in EmbedReplies(calls[Len(calls)].input) :
         LET r == embedQuery(reply)
         IN  /\ replies' = Append(replies, reply)
             /\ IF r.threw /\ Len(calls) < 3
                THEN /\ Await(calls[Len(calls)], "embed")
                     /\ UNCHANGED <<responses, qVec>>
                ELSE IF r.threw
                THEN /\ Respond(CatchResponse(r.error))
                     /\ UNCHANGED <<calls, qVec>>
                ELSE /\ qVec' = r.value
                     /\ Await(IndexCall(r.value, RouteTopK, SummaryFilter), "route")
                     /\ UNCHANGED responses
    /\ UNCHANGED <<page, other, body, rewrittenQuestion, docIds, chunkMatches, picked>>

\* lines 191-198: the embedding call returned or threw
EmbedReturns ==
    /\ pc = "embed"
    /\ \E reply \in EmbedReplies(calls[Len(calls)].input) :
         LET r == embedQuery(reply)
         IN  /\ replies' = Append(replies, reply)
             /\ IF r.threw
                THEN /\ Respond(CatchResponse(r.error))
                     /\ UNCHANGED <<calls, qVec>>
                ELSE /\ qVec' = r.value
                     /\ Await(IndexCall(r.value, RouteTopK, SummaryFilter), "route")
                     /\ UNCHANGED responses
    /\ UNCHANGED <<page, other, body, rewrittenQuestion, docIds, chunkMatches, picked>>

\* Select without the nothing-found return
SelectAlways(pool) ==
    /\ picked' = Pick(pool)
    /\ Await(GenerateCall(rewrittenQuestion, buildContext(Pick(pool))), "generate")
    /\ UNCHANGED responses

\* lines 229-258: nothing found, or pick, build the context and ask the model
Select(pool) ==
    IF Len(pool) = 0
    THEN /\ Respond(NothingFoundResponse(rewrittenQuestion))
         /\ UNCHANGED <<calls, picked>>
    ELSE /\ picked' = Pick(pool)
         /\ Await(GenerateCall(rewrittenQuestion, buildContext(Pick(pool))), "generate")
         /\ UNCHANGED responses

\* lines 194-215: the routing query returned or threw
RouteReturns ==
    /\ pc = "route"
    /\ \E reply \in IndexReplies(calls[Len(calls)]) :
         LET r == pineconeQuery(reply)
         IN  /\ replies' = Append(replies, reply)
             /\ IF r.threw
                THEN /\ Respond(CatchResponse(r.error))
                     /\ UNCHANGED <<calls, docIds>>
                ELSE LET ids == RoutedDocIds(MatchesOrEmpty(r.value))
                     IN  /\ docIds' = ids
                         /\ Await(IndexCall(qVec, ChunkTopK, ChunkFilter(ids)), "scoped")
                         /\ UNCHANGED responses
    /\ UNCHANGED <<page, other, body, rewrittenQuestion, qVec, chunkMatches, picked>>

\* lines 211-258: the scoped chunk query returned or threw
ScopedReturns ==
    /\ pc = "scoped"
    /\ \E reply \in IndexReplies(calls[Len(calls)]) :
         LET r == pineconeQuery(reply)
         IN  /\ replies' = Append(replies, reply)
             /\ IF r.threw
                THEN /\ Respond(CatchResponse(r.error))
                     /\ UNCHANGED <<calls, chunkMatches, picked>>
                ELSE LET matches == MatchesOrEmpty(r.value)
                     IN  /\ chunkMatches' = matches
                         /\ IF NeedBroaden(docIds, matches)
                            THEN /\ Await(IndexCall(qVec, ChunkTopK, BroadFilter), "broaden")
                                 /\ UNCHANGED <<responses, picked>>
                            ELSE Select(matches)
    /\ UNCHANGED <<page, other, body, rewrittenQuestion, qVec, docIds>>

\* lines 221-258: the broadened chunk query returned or threw
BroadenReturns ==
    /\ pc = "broaden"
    /\ \E reply \in IndexReplies(calls[Len(calls)]) :
         LET r == pineconeQuery(reply)
         IN  /\ replies' = Append(replies, reply)
             /\ IF r.threw
                THEN /\ Respond(CatchResponse(r.error))
                     /\ UNCHANGED <<calls, chunkMatches, picked>>
                ELSE LET matches == BroadenedPool(r.value, chunkMatches)
                     IN  /\ chunkMatches' = matches
                         /\ Select(matches)
    /\ UNCHANGED <<page, other, body, rewrittenQuestion, qVec, docIds>>

\* lines 258-264: the answer call returned or threw
GenerateReturns ==
    /\ pc = "generate"
    /\ \E reply \in GenerateReplies :
         LET r == askLLM(reply)
         IN  /\ replies' = Append(replies, reply)
             /\ IF r.threw
                THEN Respond(CatchResponse(r.error))
                ELSE Respond(AnswerResponse(r.value, picked, rewrittenQuestion))
    /\ UNCHANGED <<page, other, body, rewrittenQuestion, qVec, docIds, chunkMatches, picked, calls>>

Next ==
    \/ Validate
    \/ RewriteReturns
    \/ EmbedReturns
    \/ RouteReturns
    \/ ScopedReturns
    \/ BroadenReturns
    \/ GenerateReturns

Spec == Init /\ [][Next]_vars

-----------------------------------------------------------------------------
(* What the properties below talk about *)

Done == pc = "done"

CountCalls(kind) == Cardinality({i \in 1..Len(calls) : calls[i].kind = kind})

\* the positions of the index queries in the call log, in order
IndexPos ==
    SelectSeq([i \in 1..Len(calls) |-> i], LAMBDA i : calls[i].kind = "index")

\* the k-th index query has returned a response (it did not throw)
IndexReturned(k) ==
    /\ Len(IndexPos) >= k
    /\ IndexPos[k] <= Len(replies)
    /\ replies[IndexPos[k]].kind = "ok"

\* the chunks the k-th index query returned
IndexResult(k) == MatchesOrEmpty(replies[IndexPos[k]])

\* call i was answered by a thrown error
CallThrew(i) == i <= Len(replies) /\ replies[i].kind = "error"

\* the text of a chat completion after trim, empty when there is none
CompletionText(reply) ==
    IF reply.kind = "ok" /\ IsString(reply.content) THEN Trim(reply.content.s) ELSE <<>>

IsErrorResponse(r) == DOMAIN r.body = {"error"} /\ r.status >= StatusBadRequest

IsSuccessResponse(r) ==
    DOMAIN r.body = {"answer", "matches", "rewrittenQuestion"} /\ r.status = StatusOk

IsNothingFound(r) ==
    IsSuccessResponse(r) /\ r.body.answer = NothingFoundText /\ r.body.matches = <<>>

\* the request body fails the validation the interface asks for
InvalidRequest ==
    \/ ~body.isArray
    \/ Len(body.messages) = 0
    \/ LET last == body.messages[Len(body.messages)]
       IN  \/ last.role # "user"
           \/ ~IsString(last.content)
           \/ Trim(last.content.s) = <<>>

\* the verbatim content of the last user turn of a valid request
LastContent == body.messages[Len(body.messages)].content.s

-----------------------------------------------------------------------------
(* Input validation *)

\* C1: a request with no messages array, an empty one, or a last element that
\* is not a user turn with non-empty trimmed content makes no outbound call
\* and, once finished, has got exactly one error response.
C1_InvalidRequestRejected ==
    InvalidRequest =>
        /\ calls = <<>>
        /\ pc \in {"start", "done"}
        /\ Done => Len(responses) = 1 /\ IsErrorResponse(responses[1])

\* a finished request whose last turn is a user turn of whitespace only
C1_Witness ==
    /\ Done
    /\ body.isArray /\ Len(body.messages) > 0
    /\ body.messages[Len(body.messages)] = [role |-> "user", content |-> Str(<<" ">>)]
    /\ Len(responses) = 1 /\ responses[1].status = StatusBadRequest

-----------------------------------------------------------------------------
(* Error containment *)

\* the rewrite call threw, or returned no text or only whitespace
RewriteFailed == Len(replies) >= 1 /\ (CallThrew(1) \/ CompletionText(replies[1]) = <<>>)

\* C2: when the rewrite call throws or returns empty text, the request goes on
\* to the embedding call with the verbatim last user turn as the query, and no
\* error response comes from the rewrite failure.
C2_RewriteFailureRecovered ==
    RewriteFailed =>
        /\ rewrittenQuestion = LastContent
        /\ CountCalls("embed") = 1
        /\ Len(replies) = 1 => (pc = "embed" /\ responses = <<>>)

\* C3: when the answer call returns empty text, the finished request has got
\* an error response; a success response never carries an empty answer.
C3_EmptyAnswerFails ==
    /\ \A i \in 1..Len(replies) :
         (calls[i].kind = "generate" /\ replies[i].kind = "ok"
            /\ CompletionText(replies[i]) = <<>>)
         => (Len(responses) = 1 /\ IsErrorResponse(responses[1]))
    /\ \A k \in 1..Len(responses) :
         IsSuccessResponse(responses[k]) => responses[k].body.answer # <<>>

\* C4: when the answer call throws, the request is finished with one error
\* response (no answer, no matches), and the embedding call and the two or
\* three index queries were all issued and answered before it.
C4_GenerateThrowSurfaced ==
    \A i \in 1..Len(replies) :
        (calls[i].kind = "generate" /\ CallThrew(i)) =>
            /\ Done
            /\ Len(responses) = 1 /\ IsErrorResponse(responses[1])
            /\ CountCalls("embed") = 1
            /\ CountCalls("index") \in {2, 3}
            /\ \A j \in 1..(i - 1) :
                 calls[j].kind \in {"embed", "index"} => replies[j].kind = "ok"

\* the answer call of a finished request threw
C4_Witness ==
    /\ Done
    /\ Len(calls) >= 1 /\ calls[Len(calls)].kind = "generate"
    /\ CallThrew(Len(calls))
    /\ CountCalls("index") = 3

\* C5: when the embedding call or an index query throws, it is the last
\* outbound call of the request, which is finished with one error response of
\* failure status; the answer call is never made.
C5_RetrievalThrowEndsRequest ==
    \A i \in 1..Len(replies) :
        (calls[i].kind \in {"embed", "index"} /\ CallThrew(i)) =>
            /\ Len(calls) = i
            /\ Done
            /\ Len(responses) = 1 /\ IsErrorResponse(responses[1])
            /\ responses[1].status = StatusServerError
            /\ CountCalls("generate") = 0

\* the broadened index query of a finished request threw
C5_Witness ==
    /\ Done
    /\ CountCalls("index") = 3
    /\ CallThrew(IndexPos[3])

-----------------------------------------------------------------------------
(* The response *)

\* the response carries the answer the answer call generated, with 1 to 8 matches
IsAnswerResponse(r) ==
    /\ IsSuccessResponse(r)
    /\ Len(calls) >= 1 /\ calls[Len(calls)].kind = "generate"
    /\ Len(replies) = Len(calls)
    /\ r.body.answer = CompletionText(replies[Len(replies)])
    /\ Len(r.body.matches) \in 1..PickMax

\* C6: a finished request has got exactly one response (an unfinished one has
\* none), and it is an answer with 1 to 8 matches, the nothing-found message
\* with no matches, or an error text alone with a failure status.
C6_OneResponseOfThreeKinds ==
    /\ ~Done => responses = <<>>
    /\ Done =>
         /\ Len(responses) = 1
         /\ \/ IsAnswerResponse(responses[1])
            \/ IsNothingFound(responses[1])
            \/ IsErrorResponse(responses[1])

\* a finished request answered with 8 matches out of a pool of more than 8
C6_Witness ==
    /\ Done
    /\ Len(responses) = 1 /\ IsAnswerResponse(responses[1])
    /\ Len(responses[1].body.matches) = PickMax
    /\ Len(chunkMatches) > PickMax

-----------------------------------------------------------------------------
(* Retrieval *)

\* C7: a finished request that passed validation made exactly one embedding
\* call, whatever the rewrite call did.
C7_EmbedExactlyOnce ==
    (Done /\ ~InvalidRequest) => CountCalls("embed") = 1

\* C8: when routing gave a non-empty docId set and the scoped query returned 3
\* or more chunks, the request makes exactly 2 index queries and never waits
\* for a broadened one.
C8_NoBroadeningWhenEnough ==
    (docIds # <<>> /\ IndexReturned(2) /\ Len(IndexResult(2)) >= BroadenBelow) =>
        /\ CountCalls("index") = 2
        /\ pc # "broaden"

\* routing gave docIds, the scoped query returned exactly 3 chunks, and the
\* request has finished
C8_Witness ==
    /\ Done
    /\ docIds # <<>>
    /\ IndexReturned(2) /\ Len(IndexResult(2)) = BroadenBelow

\* routing gave docIds and the scoped query returned fewer than 3 chunks
Sparse == docIds # <<>> /\ IndexReturned(2) /\ Len(IndexResult(2)) < BroadenBelow

\* the third index query is the chunk query with the docId filter removed
BroadenedQueryMade ==
    /\ Len(IndexPos) = 3
    /\ calls[IndexPos[3]] = IndexCall(qVec, ChunkTopK, BroadFilter)

\* C9 as stated: when routing gave docIds and the scoped query returned fewer
\* than 3 chunks, a third, unfiltered top-12 chunk query is made, and once it
\* has returned the pool given to selection is its result, not the scoped one.
C9_PoolIsBroadenedResult ==
    Sparse =>
        /\ BroadenedQueryMade
        /\ IndexReturned(3) => chunkMatches = IndexResult(3)

\* C9 amended: as above, but the pool is the broadened response's match list
\* when the response has one (an empty list included), and stays the scoped
\* result when the response has no match list.
C9_PoolIsBroadenedMatchList ==
    Sparse =>
        /\ BroadenedQueryMade
        /\ IndexReturned(3) =>
             chunkMatches = IF replies[IndexPos[3]].hasMatches
                            THEN replies[IndexPos[3]].matches
                            ELSE IndexResult(2)

\* the broadened query returned a match list that differs from a non-empty
\* scoped result, and selection has run on it
C9_Witness ==
    /\ Sparse /\ IndexReturned(3)
    /\ replies[IndexPos[3]].hasMatches
    /\ IndexResult(2) # <<>>
    /\ IndexResult(3) # IndexResult(2)
    /\ pc = "generate"
    /\ picked = Pick(IndexResult(3))

\* every index query issued has returned, and no further one is awaited
RetrievalOver ==
    /\ pc \in {"generate", "done"}
    /\ Len(IndexPos) >= 2
    /\ \A k \in 1..Len(IndexPos) : IndexReturned(k)

\* C10: when retrieval is over and the final pool holds no chunk, the request
\* is finished with one success response: the nothing-found message and no
\* matches; no answer call is made.
C10_EmptyPoolIsNothingFound ==
    (RetrievalOver /\ chunkMatches = <<>>) =>
        /\ Done
        /\ Len(responses) = 1 /\ IsNothingFound(responses[1])
        /\ responses[1].status = StatusOk
        /\ CountCalls("generate") = 0

\* both chunk queries returned nothing and the request has finished
C10_Witness ==
    /\ Done
    /\ RetrievalOver
    /\ Len(IndexPos) = 3
    /\ IndexResult(2) = <<>> /\ IndexResult(3) = <<>>
    /\ Len(responses) = 1 /\ IsNothingFound(responses[1])

-----------------------------------------------------------------------------
(* The selection alone: the two loops of lines 238-253 on any ranked pool *)

PoolBlocks == {"", "bio", "research"}

\* the k-th candidate of a pool, with the given section label
Candidate(k, block) == Hit(k, k, [chunk_block |-> block])

\* the ranked pool of distinct candidates that carry the given labels
Pool(labels) == [k \in 1..Len(labels) |-> Candidate(k, labels[k])]

SelInit ==
    /\ pc = "pool"
    /\ \E n \in 1..MaxPool : \E labels \in [1..n -> PoolBlocks] :
         chunkMatches = Pool(labels)
    /\ picked = <<>>
    /\ body = [json |-> TRUE, isArray |-> TRUE, messages |-> <<>>]
    /\ rewrittenQuestion = <<>>
    /\ qVec = <<>>
    /\ docIds = <<>>
    /\ calls = <<>>
    /\ replies = <<>>
    /\ responses = <<>>
    /\ other = NoRequest
    /\ page = NoPage

\* lines 242-249: the first loop has run
FirstLoop ==
    /\ pc = "pool"
    /\ picked' = Pass1(chunkMatches, <<>>, {})
    /\ pc' = "pass1"
    /\ UNCHANGED <<page, other, body, rewrittenQuestion, qVec, docIds, chunkMatches, calls, replies,
                   responses>>

\* lines 250-253: the second loop has run
SecondLoop ==
    /\ pc = "pass1"
    /\ picked' = Pass2(chunkMatches, picked)
    /\ pc' = "picked"
    /\ UNCHANGED <<page, other, body, rewrittenQuestion, qVec, docIds, chunkMatches, calls, replies,
                   responses>>

SelNext == FirstLoop \/ SecondLoop

SelSpec == SelInit /\ [][SelNext]_vars

BlockOf(m) == m.metadata.chunk_block

\* picked after the first loop has gone through the first k candidates
AfterFirst(k) == Pass1(Take(chunkMatches, k), <<>>, {})

\* picked after the second loop has gone through the first k candidates
AfterSecond(k) == Pass2(Take(chunkMatches, k), Pass1(chunkMatches, <<>>, {}))

\* what the first loop accepted
FirstPass == Pass1(chunkMatches, <<>>, {})

\* C11: the selection never holds more than 8 candidates: not after any
\* iteration of the first loop, not after any iteration of the second, and
\* not in what it returns.
C11_AtMostEight ==
    /\ Len(picked) <= PickMax
    /\ pc = "pass1" => \A k \in 0..Len(chunkMatches) : Len(AfterFirst(k)) <= PickMax
    /\ pc = "picked" => \A k \in 0..Len(chunkMatches) : Len(AfterSecond(k)) <= PickMax

\* a pool of more than 8 candidates, of which the first loop took fewer than 8
\* and the second filled the selection up to 8
C11_Witness ==
    /\ pc = "picked"
    /\ Len(chunkMatches) > PickMax
    /\ Len(FirstPass) < PickMax
    /\ Len(picked) = PickMax

\* C12 as stated: after the first loop every accepted candidate has a
\* non-empty section label that no candidate accepted before it carries.
C12_FirstPassSkipsEmpty ==
    pc = "pass1" =>
        \A i \in 1..Len(picked) :
            /\ BlockOf(picked[i]) # ""
            /\ \A j \in 1..(i - 1) : BlockOf(picked[j]) # BlockOf(picked[i])

\* candidate k has no label, or is the first of the pool with its label
FirstOfBlock(k) ==
    \/ BlockOf(chunkMatches[k]) = ""
    \/ \A j \in 1..(k - 1) : BlockOf(chunkMatches[j]) # BlockOf(chunkMatches[k])

\* C12 amended: the first loop accepts, in rank order and up to 8, exactly the
\* candidates whose label is empty or not yet represented; what the second
\* loop adds comes after them and repeats a non-empty label already accepted.
C12_FirstPassTakesEmptyOrNew ==
    /\ pc = "pass1" =>
         picked = Take(SelectSeq(chunkMatches,
                                 LAMBDA m : FirstOfBlock(m.id)), PickMax)
    /\ pc = "picked" =>
         LET first == FirstPass
         IN  /\ SubSeq(picked, 1, Len(first)) = first
             /\ \A i \in (Len(first) + 1)..Len(picked) :
                  /\ BlockOf(picked[i]) # ""
                  /\ \E j \in 1..Len(first) : BlockOf(picked[j]) = BlockOf(picked[i])

\* the first loop accepted a candidate without a label, and the second loop
\* added a candidate
C12_Witness ==
    /\ pc = "picked"
    /\ \E i \in 1..Len(FirstPass) : BlockOf(FirstPass[i]) = ""
    /\ Len(picked) > Len(FirstPass)

\* C13 as stated: the candidates the first loop accepted carry pairwise
\* distinct section labels.
C13_FirstPassLabelsDistinct ==
    pc = "pass1" =>
        \A i, j \in 1..Len(picked) :
            i # j => BlockOf(picked[i]) # BlockOf(picked[j])

\* C13 amended: the candidates the first loop accepted carry pairwise distinct
\* non-empty labels (several may have no label), and two selected candidates
\* share a non-empty label only when the second loop added one of them.
C13_NonEmptyLabelsDistinct ==
    /\ pc = "pass1" =>
         \A i, j \in 1..Len(picked) :
             (i # j /\ BlockOf(picked[i]) # "") => BlockOf(picked[i]) # BlockOf(picked[j])
    /\ pc = "picked" =>
         LET first == FirstPass
         IN  \A i, j \in 1..Len(picked) :
                 (i < j /\ BlockOf(picked[i]) # "" /\ BlockOf(picked[i]) = BlockOf(picked[j]))
                     => j > Len(first)

\* the first loop accepted two candidates without a label and two with
\* different labels, and the second loop added a repeated label
C13_Witness ==
    /\ pc = "picked"
    /\ \E i, j \in 1..Len(FirstPass) :
         i # j /\ BlockOf(FirstPass[i]) = "" /\ BlockOf(FirstPass[j]) = ""
    /\ \E i, j \in 1..Len(FirstPass) :
         BlockOf(FirstPass[i]) = "bio" /\ BlockOf(FirstPass[j]) = "research"
    /\ Len(picked) > Len(FirstPass)

-----------------------------------------------------------------------------
(* Assembly and rewriting, in the whole request *)

\* the context sent with the answer call, <<>> before that call
SentContext ==
    IF Len(calls) >= 1 /\ calls[Len(calls)].kind = "generate"
    THEN calls[Len(calls)].context ELSE <<>>

\* C14: the records of the context sent to the answer call and the matches of
\* the answer response are as many as the selected candidates, and record
\* [#N] and match N are both built from the N-th selected candidate.
C14_OrderMirrorsSelection ==
    /\ pc \in {"generate", "done"} /\ CountCalls("generate") = 1 =>
         /\ Len(SentContext) = Len(picked)
         /\ \A n \in 1..Len(picked) :
              /\ SentContext[n].number = n
              /\ SentContext[n].text = picked[n].metadata.text
              /\ SentContext[n].section = picked[n].metadata.chunk_block
              /\ SentContext[n].source = picked[n].metadata.source_url
    /\ \A k \in 1..Len(responses) :
         (IsSuccessResponse(responses[k]) /\ ~IsNothingFound(responses[k])) =>
             /\ Len(responses[k].body.matches) = Len(picked)
             /\ \A n \in 1..Len(picked) :
                  /\ responses[k].body.matches[n].score = picked[n].score
                  /\ responses[k].body.matches[n].chunkBlock = picked[n].metadata.chunk_block
                  /\ responses[k].body.matches[n].url = picked[n].metadata.source_url

\* an answer response whose selection is not in score order: a candidate
\* added by the second loop ranks above one that precedes it
C14_Witness ==
    /\ Done
    /\ Len(responses) = 1 /\ IsAnswerResponse(responses[1])
    /\ Len(picked) >= 3
    /\ \E n \in 1..(Len(picked) - 1) : picked[n].score < picked[n + 1].score

\* C15: for a request that passed validation, what the rewriter gives back
\* once its call is over is non-empty: the trimmed output of the call when
\* that is non-empty, else the content of the last user turn.
C15_RewriterGivesNonEmpty ==
    (~InvalidRequest /\ Len(replies) >= 1) =>
        /\ rewrittenQuestion # <<>>
        /\ rewrittenQuestion = IF CompletionText(replies[1]) # <<>>
                               THEN CompletionText(replies[1])
                               ELSE LastContent

-----------------------------------------------------------------------------
(* The snippet alone: one selected passage of any length put into a match *)

Rep(c, n) == [i \in 1..n |-> c]

Dots == <<".", ".", ".">>

\* a passage of two runs of letters with whitespace around and between them,
\* which may itself end in three dots
Passage(lead, n, gap, m, tail) == lead \o Rep("q", n) \o gap \o Rep("q", m) \o tail

\* hitsForClient of the older handler's buildContextMarkdown
hitsForClient(hits) ==
    [i \in 1..Len(hits) |->
        LET fields == hits[i].metadata
        IN  [score |-> hits[i].score,
             name |-> OrElse(fields.professorName, "(unknown name)"),
             url |-> OrElse(fields.url, hits[i].id),
             snippet |-> shortenLegacy(fields.text, LegacyShortenMax)]]

SnipInit ==
    /\ pc = "passage"
    /\ \E lead \in {<<>>, <<"\t">>}, n \in 0..MaxRun, gap \in {<<>>, <<" ", "\n">>},
          m \in {0, 2}, tail \in {<<>>, <<" ">>, Dots} :
         picked = <<Hit(1, 1, [SummaryMetadata("d1") EXCEPT
                                  !.text = Passage(lead, n, gap, m, tail)])>>
    /\ chunkMatches = <<>>
    /\ body = [json |-> TRUE, isArray |-> TRUE, messages |-> <<>>]
    /\ rewrittenQuestion = <<>>
    /\ qVec = <<>>
    /\ docIds = <<>>
    /\ calls = <<>>
    /\ replies = <<>>
    /\ responses = <<>>
    /\ other = NoRequest
    /\ page = NoPage

\* lines 260-264: the selected passage goes into the response's matches
RouteMatches ==
    /\ pc = "passage"
    /\ Respond(AnswerResponse(<<"q">>, picked, rewrittenQuestion))
    /\ UNCHANGED <<page, other, body, rewrittenQuestion, qVec, docIds, chunkMatches, picked, calls,
                   replies>>

\* the older handler: the hit goes into the response's matches
LegacyMatches ==
    /\ pc = "passage"
    /\ responses' = Append(responses,
                           JsonResponse([answer |-> <<"q">>,
                                         matches |-> hitsForClient(picked)], StatusOk))
    /\ pc' = "legacy"
    /\ UNCHANGED <<page, other, body, rewrittenQuestion, qVec, docIds, chunkMatches, picked, calls,
                   replies>>

SnipNext == RouteMatches \/ LegacyMatches

SnipSpec == SnipInit /\ [][SnipNext]_vars

PassageText == picked[1].metadata.text

Snippet == responses[1].body.matches[1].snippet

\* the cap of the handler that built the response
Cap == IF pc = "legacy" THEN LegacyShortenMax ELSE ShortenMax

EndsInDots(t) == Len(t) >= 3 /\ SubSeq(t, Len(t) - 2, Len(t)) = Dots

NonSpace(t) == SelectSeq(t, LAMBDA c : ~IsSpace(c))

\* c is a collapsed, trimmed form of t: the same letters in the same order,
\* single plain spaces only, none at either end
IsCollapsed(c, t) ==
    /\ NonSpace(c) = NonSpace(t)
    /\ \A i \in 1..Len(c) : IsSpace(c[i]) => c[i] = " "
    /\ \A i \in 1..(Len(c) - 1) : ~(IsSpace(c[i]) /\ IsSpace(c[i + 1]))
    /\ c # <<>> => (~IsSpace(c[1]) /\ ~IsSpace(c[Len(c)]))

Clean == Trim(CollapseSpaces(PassageText))

\* C16 as stated: the snippet ends in an ellipsis exactly when the collapsed
\* text exceeds the cap.
C16_EllipsisIffOverCap ==
    pc \in {"done", "legacy"} =>
        LET clean == Clean
        IN  EndsInDots(Snippet) <=> Len(clean) > Cap

\* C16 amended: the snippet is the collapsed, trimmed text when that fits
\* within the cap, else its first cap - 3 characters followed by "..."; it is
\* never longer than the cap, and it ends in an ellipsis whenever the
\* collapsed text exceeds the cap (and otherwise only if the text itself does).
C16_SnippetWithinCap ==
    pc \in {"done", "legacy"} =>
        LET clean == Clean
        IN  /\ IsCollapsed(clean, PassageText)
            /\ Len(Snippet) <= Cap
            /\ Len(clean) <= Cap => Snippet = clean
            /\ Len(clean) > Cap =>
                 /\ Snippet = SubSeq(clean, 1, Cap - 3) \o Dots
                 /\ Len(Snippet) = Cap
                 /\ EndsInDots(Snippet)

\* a passage whose collapsed form is one character over the route handler's
\* cap, with whitespace that was collapsed and trimmed, cut to a snippet
C16_Witness ==
    /\ pc = "done"
    /\ Len(Snippet) = ShortenMax
    /\ LET clean == Clean
       IN  Len(clean) = ShortenMax + 1 /\ Len(PassageText) > Len(clean)

-----------------------------------------------------------------------------
(* A collaborator that never answers *)

Awaiting == pc \in {"rewrite", "embed", "route", "scoped", "broaden", "generate"}

\* the awaited promise never settles: the calls pass no timeout and no abort
\* signal, so nothing resumes the handler
NeverReturns ==
    /\ Awaiting
    /\ pc' = "hung"
    /\ UNCHANGED <<page, other, body, rewrittenQuestion, qVec, docIds, chunkMatches, picked, calls,
                   replies, responses>>

HangNext == Next \/ NeverReturns

\* the runtime resumes the handler whenever an awaited call settles
HangSpec == Init /\ [][HangNext]_vars /\ WF_vars(Next)

\* C17: a request that has passed validation (its first outbound call is
\* issued) eventually has a response, even when an outbound call never returns.
C17_ValidatedRequestResponds == (calls # <<>>) ~> (responses # <<>>)

-----------------------------------------------------------------------------
(* The order of the outbound calls, and retries *)

IsRewrite(c) == c = RewriteCall(body.messages)
IsEmbed(c) == c = EmbedCall(rewrittenQuestion)
IsRouting(c) == c = IndexCall(qVec, RouteTopK, SummaryFilter)
IsScoped(c) == c = IndexCall(qVec, ChunkTopK, ChunkFilter(docIds))
IsBroadened(c) == c = IndexCall(qVec, ChunkTopK, BroadFilter)
IsGenerate(c) == c.kind = "generate" /\ c.question = rewrittenQuestion

\* the i-th outbound call of a request is the one the fixed order puts there
InOrder(i) ==
    CASE i = 1 -> IsRewrite(calls[i])
      [] i = 2 -> IsEmbed(calls[i])
      [] i = 3 -> IsRouting(calls[i])
      [] i = 4 -> IsScoped(calls[i])
      [] i = 5 -> \/ IsGenerate(calls[i])
                  \/ IsBroadened(calls[i]) /\ NeedBroaden(docIds, IndexResult(2))
      [] i = 6 -> IsGenerate(calls[i]) /\ IsBroadened(calls[5])
      [] OTHER -> FALSE

\* C19: the outbound calls of a request are issued in the order rewrite,
\* embedding, routing query, scoped chunk query, broadened chunk query (only
\* when needed), generation; a call is issued only after the one before it
\* has returned, and the response comes after the last call has returned.
C19_FixedOrderNoOverlap ==
    /\ \A i \in 1..Len(calls) : InOrder(i)
    /\ Len(calls) - Len(replies) \in {0, 1}
    /\ \A i \in 1..(Len(calls) - 1) : ~CallThrew(i)
    /\ responses # <<>> => (Done /\ Len(calls) = Len(replies))
    /\ Awaiting <=> Len(calls) = Len(replies) + 1

\* a request that went through all six calls, the broadened query included
C19_Witness ==
    /\ Done
    /\ Len(calls) = 6
    /\ Len(replies) = 6
    /\ IsBroadened(calls[5])
    /\ IsAnswerResponse(responses[1])

RoutingCalls == {i \in 1..Len(calls) : calls[i].kind = "index" /\ calls[i].topK = RouteTopK}
ChunkCalls == {i \in 1..Len(calls) : calls[i].kind = "index" /\ calls[i].topK = ChunkTopK}

\* C20: the rewrite, embedding and generation calls are each issued at most
\* once, at most three index queries are issued (one routing query and at most
\* two chunk queries, the second one only as the broadened query), and after
\* a call has failed no call of the same kind is issued again.
C20_NoRetry ==
    /\ CountCalls("rewrite") <= 1
    /\ CountCalls("embed") <= 1
    /\ CountCalls("generate") <= 1
    /\ CountCalls("index") <= 3
    /\ Cardinality(RoutingCalls) <= 1
    /\ Cardinality(ChunkCalls) <= 2
    /\ Cardinality(ChunkCalls) = 2 => BroadenedQueryMade
    /\ \A i \in 1..Len(calls) :
         CallThrew(i) => \A j \in (i + 1)..Len(calls) : calls[j].kind # calls[i].kind

\* the broadened query failed after two index queries had succeeded, and the
\* request ended with an error without a fourth index query
C20_Witness ==
    /\ Done
    /\ CountCalls("index") = 3
    /\ CallThrew(Len(calls))
    /\ calls[Len(calls)].kind = "index"
    /\ IsErrorResponse(responses[1])

-----------------------------------------------------------------------------
(* Two requests in flight: the runtime runs one handler at a time and may
   resume the other one wherever the running one is at an await *)

MaxHits == 2        \* most matches in an index reply when two requests are in flight

\* everything one invocation of POST holds: its locals and its log
Running ==
    [pc |-> pc, body |-> body, rewrittenQuestion |-> rewrittenQuestion, qVec |-> qVec,
     docIds |-> docIds, chunkMatches |-> chunkMatches, picked |-> picked,
     calls |-> calls, replies |-> replies, responses |-> responses]

Arrived(b) ==
    [pc |-> "start", body |-> b, rewrittenQuestion |-> <<>>, qVec |-> <<>>,
     docIds |-> <<>>, chunkMatches |-> <<>>, picked |-> <<>>,
     calls |-> <<>>, replies |-> <<>>, responses |-> <<>>]

\* the requests that arrive together: one turn each, valid or not
ConcBodies == {b \in Bodies : b.json /\ b.isArray /\ Len(b.messages) = 1}

\* the replies the collaborators give while two requests are in flight: a
\* failure with an Error, a completion with text, an embedding, or at most
\* MaxHits matches
ConcReply(reply) ==
    IF reply.kind = "error" THEN reply.error.isError
    ELSE /\ "content" \in DOMAIN reply => CompletionText(reply) # <<>>
         /\ "hasData" \in DOMAIN reply => reply.hasData
         /\ "hasMatches" \in DOMAIN reply =>
              (reply.hasMatches /\ Len(reply.matches) <= MaxHits)

ConcInit ==
    /\ pc = "start"
    /\ body \in ConcBodies
    /\ rewrittenQuestion = <<>>
    /\ qVec = <<>>
    /\ docIds = <<>>
    /\ chunkMatches = <<>>
    /\ picked = <<>>
    /\ calls = <<>>
    /\ replies = <<>>
    /\ responses = <<>>
    /\ \E b \in ConcBodies : other = Arrived(b)
    /\ page = NoPage

\* Switch that leaves picked where it is, as a variable of the module would be
SwitchSharedPicked ==
    /\ other' = Running
    /\ pc' = other.pc
    /\ body' = other.body
    /\ rewrittenQuestion' = other.rewrittenQuestion
    /\ qVec' = other.qVec
    /\ docIds' = other.docIds
    /\ chunkMatches' = other.chunkMatches
    /\ calls' = other.calls
    /\ replies' = other.replies
    /\ responses' = other.responses
    /\ UNCHANGED <<page, picked>>

\* the running handler is at an await (or has not started, or is finished) and
\* the runtime runs the other one: every local belongs to its own invocation
Switch ==
    /\ other' = Running
    /\ pc' = other.pc
    /\ body' = other.body
    /\ rewrittenQuestion' = other.rewrittenQuestion
    /\ qVec' = other.qVec
    /\ docIds' = other.docIds
    /\ chunkMatches' = other.chunkMatches
    /\ picked' = other.picked
    /\ calls' = other.calls
    /\ replies' = other.replies
    /\ responses' = other.responses
    /\ UNCHANGED page

\* the reply that the step just taken consumed is one of ConcReply
Quiet == ConcReply(replies'[Len(replies')])

ConcNext ==
    \/ Validate
    \/ RewriteReturns /\ Quiet
    \/ EmbedReturns /\ Quiet
    \/ RouteReturns /\ Quiet
    \/ ScopedReturns /\ Quiet
    \/ BroadenReturns /\ Quiet
    \/ GenerateReturns /\ Quiet
    \/ Switch

ConcSpec == ConcInit /\ [][ConcNext]_vars

\* POST run alone on body b with the replies rs, as far as rs reaches: the
\* calls it issues and the response it gives
Alone(cs, rs) == [calls |-> cs, responses |-> rs]

AloneGenerate(cs, q, sel, rs) ==
    IF rs = <<>> THEN Alone(cs, <<>>)
    ELSE LET r == askLLM(rs[1])
         IN  IF r.threw THEN Alone(cs, <<CatchResponse(r.error)>>)
             ELSE Alone(cs, <<AnswerResponse(r.value, sel, q)>>)

AloneSelect(cs, q, pool, rs) ==
    IF Len(pool) = 0 THEN Alone(cs, <<NothingFoundResponse(q)>>)
    ELSE AloneGenerate(Append(cs, GenerateCall(q, buildContext(Pick(pool)))),
                       q, Pick(pool), rs)

AloneBroaden(cs, q, scoped, rs) ==
    IF rs = <<>> THEN Alone(cs, <<>>)
    ELSE LET r == pineconeQuery(rs[1])
         IN  IF r.threw THEN Alone(cs, <<CatchResponse(r.error)>>)
             ELSE AloneSelect(cs, q, BroadenedPool(r.value, scoped), Tail(rs))

AloneScoped(cs, q, v, ids, rs) ==
    IF rs = <<>> THEN Alone(cs, <<>>)
    ELSE LET r == pineconeQuery(rs[1])
         IN  IF r.threw THEN Alone(cs, <<CatchResponse(r.error)>>)
             ELSE LET matches == MatchesOrEmpty(r.value)
                  IN  IF NeedBroaden(ids, matches)
                      THEN AloneBroaden(Append(cs, IndexCall(v, ChunkTopK, BroadFilter)),
                                        q, matches, Tail(rs))
                      ELSE AloneSelect(cs, q, matches, Tail(rs))

AloneRoute(cs, q, v, rs) ==
    IF rs = <<>> THEN Alone(cs, <<>>)
    ELSE LET r == pineconeQuery(rs[1])
         IN  IF r.threw THEN Alone(cs, <<CatchResponse(r.error)>>)
             ELSE LET ids == RoutedDocIds(MatchesOrEmpty(r.value))
                  IN  AloneScoped(Append(cs, IndexCall(v, ChunkTopK, ChunkFilter(ids))),
                                  q, v, ids, Tail(rs))

AloneEmbed(cs, q, rs) ==
    IF rs = <<>> THEN Alone(cs, <<>>)
    ELSE LET r == embedQuery(rs[1])
         IN  IF r.threw THEN Alone(cs, <<CatchResponse(r.error)>>)
             ELSE AloneRoute(Append(cs, IndexCall(r.value, RouteTopK, SummaryFilter)),
                             q, r.value, Tail(rs))

AloneRewrite(cs, messages, rs) ==
    IF rs = <<>> THEN Alone(cs, <<>>)
    ELSE LET r == rewriteToStandalone(messages, rs[1])
         IN  IF r.threw THEN Alone(cs, <<CatchResponse(r.error)>>)
             ELSE AloneEmbed(Append(cs, EmbedCall(r.value)), r.value, Tail(rs))

AlonePOST(b, rs) ==
    IF ~b.json THEN Alone(<<>>, <<CatchResponse(SyntaxError)>>)
    ELSE IF ~b.isArray \/ Len(b.messages) = 0
    THEN Alone(<<>>, <<JsonResponse(
                          [error |-> "Missing or invalid \"messages\" array in body"],
                          StatusBadRequest)>>)
    ELSE IF ~ValidLast(b.messages[Len(b.messages)])
    THEN Alone(<<>>, <<JsonResponse(
                          [error |-> "The last message must be a user message with non-empty \"content\"."],
                          StatusBadRequest)>>)
    ELSE AloneRewrite(<<RewriteCall(b.messages)>>, b.messages, rs)

\* a request that has started has issued the calls, and given the response,
\* that it would have alone with the replies it has had
AsAlone(r) ==
    r.pc # "start" =>
        LET alone == AlonePOST(r.body, r.replies)
        IN  r.calls = alone.calls /\ r.responses = alone.responses

\* C18: whatever the interleaving of two requests at their awaits, each one's
\* outbound calls and its response are those of the same request run alone
\* with the same collaborator replies.
C18_NoInterference == AsAlone(Running) /\ AsAlone(other)

\* one request has answered from its own passages while the other is
\* suspended at its generation call holding different passages
C18_Witness ==
    /\ Done
    /\ IsAnswerResponse(responses[1])
    /\ other.pc = "generate"
    /\ other.picked # <<>>
    /\ other.picked # picked

-----------------------------------------------------------------------------
(* Routing that finds no document *)

\* the routing query has returned and no summary hit carried a docId
RoutedNothing == IndexReturned(1) /\ RoutedDocIds(IndexResult(1)) = <<>>

\* C21: when routing yields no docId the request goes on: the chunk query is
\* issued with the chunk-kind filter alone, and however few chunks it returns
\* no broadened query follows, so the request makes exactly 2 index queries.
C21_EmptyRoutingGoesOnUnfiltered ==
    RoutedNothing =>
        /\ docIds = <<>>
        /\ Len(IndexPos) = 2
        /\ calls[IndexPos[2]] = IndexCall(qVec, ChunkTopK, BroadFilter)
        /\ calls[IndexPos[2]].filter = [kind |-> "profile_chunk", hasDocIds |-> FALSE,
                                        docIds |-> <<>>]
        /\ pc # "broaden"
        /\ Len(replies) = IndexPos[1] => (pc = "scoped" /\ responses = <<>>)
        /\ IndexReturned(2) =>
             IF IndexResult(2) = <<>>
             THEN Done /\ IsNothingFound(responses[1])
             ELSE CountCalls("generate") = 1

\* routing found no docId, the chunk query returned a single chunk, and the
\* request was answered after two index queries
C21_Witness ==
    /\ Done
    /\ RoutedNothing
    /\ IndexReturned(2) /\ Len(IndexResult(2)) = 1
    /\ CountCalls("index") = 2
    /\ IsAnswerResponse(responses[1])

-----------------------------------------------------------------------------
(* The selection and the ranking *)

\* the candidate at place k of the pool is in the selection
Selected(k) == InSeq(chunkMatches[k], picked)

\* its place in the selection
PlaceOf(k) == CHOOSE i \in 1..Len(picked) : picked[i] = chunkMatches[k]

\* candidate b is in the selection ahead of the higher-ranking candidate a
Overtakes(b, a) ==
    /\ a < b
    /\ Selected(b)
    /\ ~Selected(a) \/ PlaceOf(b) < PlaceOf(a)

\* the places in the pool of the candidates of s, in the order of s
PoolPlaces(s) == [i \in 1..Len(s) |-> s[i].id]

Ascending(s) == \A i \in 1..(Len(s) - 1) : s[i] < s[i + 1]

\* C22: a selected candidate b is ahead of a higher-ranking candidate a (or a
\* is left out) only when a has a non-empty section label that a selected
\* candidate ranking above a carries; the selection is what the first loop
\* accepted, in rank order, followed by what the second loop accepted, in
\* rank order, and is not sorted again.
C22_RankingExceptDiversity ==
    /\ pc = "pass1" => Ascending(PoolPlaces(picked))
    /\ pc = "picked" =>
         LET first == FirstPass
         IN  /\ \A a, b \in 1..Len(chunkMatches) :
                  Overtakes(b, a) =>
                      /\ BlockOf(chunkMatches[a]) # ""
                      /\ \E c \in 1..(a - 1) :
                           /\ Selected(c)
                           /\ BlockOf(chunkMatches[c]) = BlockOf(chunkMatches[a])
             /\ SubSeq(picked, 1, Len(first)) = first
             /\ Ascending(PoolPlaces(SubSeq(picked, Len(first) + 1, Len(picked))))

\* a candidate repeating a section was deferred: it is in the selection behind
\* a lower-ranking candidate, so the selection is not in score order
C22_Witness ==
    /\ pc = "picked"
    /\ \E a, b \in 1..Len(chunkMatches) :
         Overtakes(b, a) /\ Selected(a) /\ picked[PlaceOf(a)].score > picked[PlaceOf(b)].score

\* the candidates the first loop left, in rank order
LeftByFirst ==
    LET first == FirstPass
    IN  SelectSeq(chunkMatches, LAMBDA m : ~InSeq(m, first))

\* C23: from a pool of n >= 1 candidates the selection holds exactly
\* min(8, n), every one of them a candidate of the pool and none twice; after
\* what the first loop accepted come the candidates it left, in rank order,
\* as many as there is room for.
C23_ExactlyMinEightOrAll ==
    pc = "picked" =>
        LET first == FirstPass
            room == Min(PickMax, Len(chunkMatches)) - Len(first)
        IN  /\ Len(chunkMatches) >= 1
            /\ Len(picked) = Min(PickMax, Len(chunkMatches))
            /\ \A i \in 1..Len(picked) : InSeq(picked[i], chunkMatches)
            /\ \A i, j \in 1..Len(picked) : picked[i] = picked[j] => i = j
            /\ room >= 0
            /\ picked = first \o Take(LeftByFirst, room)

\* a pool of fewer than 8 candidates all of which are selected, at least two
\* of them by the second loop
C23_Witness ==
    /\ pc = "picked"
    /\ Len(chunkMatches) < PickMax
    /\ Len(picked) = Len(chunkMatches)
    /\ Len(picked) >= Len(FirstPass) + 2

-----------------------------------------------------------------------------
(* When the answer call is made *)

\* C24: the answer call is made only once passages have been selected from a
\* non-empty pool: the request was valid, every call before it returned
\* without throwing, and the context it carries has one record per selected
\* passage; a request that ended with the nothing-found response or with an
\* error of an earlier step has made no answer call.
C24_GenerateOnlyWithPassages ==
    /\ CountCalls("generate") >= 1 =>
         /\ ~InvalidRequest
         /\ calls[Len(calls)].kind = "generate"
         /\ \A i \in 1..(Len(calls) - 1) : i <= Len(replies) /\ ~CallThrew(i)
         /\ qVec # <<>>
         /\ chunkMatches # <<>>
         /\ Len(picked) \in 1..PickMax
         /\ Len(calls[Len(calls)].context) = Len(picked)
    /\ (Done /\ IsNothingFound(responses[1])) => CountCalls("generate") = 0
    /\ (Done /\ \E i \in 1..Len(calls) : calls[i].kind # "generate" /\ CallThrew(i)) =>
         CountCalls("generate") = 0

\* the answer call is in flight for a full selection of 8 passages that the
\* scoped query alone supplied
C24_Witness ==
    /\ pc = "generate"
    /\ Len(calls) = 5
    /\ Len(picked) = PickMax
    /\ Len(calls[5].context) = PickMax

-----------------------------------------------------------------------------
(* The docId filter of the scoped query *)

Elements(array) == {array[i] : i \in 1..Len(array)}

\* C25: once the routing query has returned its (at most 3) summary hits, the
\* scoped chunk query's doc_id filter lists each docId that a hit refers to
\* exactly once and no other; a hit without a docId adds nothing, and which
\* docIds are listed depends on the set of hits only, not on their order.
C25_FilterIsDistinctRoutedDocIds ==
    IndexReturned(1) =>
        LET hits == IndexResult(1)
            scoped == calls[IndexPos[2]]
            referred == {hits[i].metadata.doc_id : i \in 1..Len(hits)} \ {""}
        IN  /\ Len(hits) <= RouteTopK
            /\ scoped.topK = ChunkTopK
            /\ scoped.filter.kind = "profile_chunk"
            /\ scoped.filter.hasDocIds <=> referred # {}
            /\ Elements(scoped.filter.docIds) = referred
            /\ Len(scoped.filter.docIds) = Cardinality(referred)

\* three summary hits, two of them of the same document: the filter lists
\* two docIds
C25_Witness ==
    /\ IndexReturned(1)
    /\ Len(IndexResult(1)) = RouteTopK
    /\ \E i, j \in 1..RouteTopK :
         i # j /\ IndexResult(1)[i].metadata.doc_id = IndexResult(1)[j].metadata.doc_id
    /\ Len(calls[IndexPos[2]].filter.docIds) = 2

-----------------------------------------------------------------------------
(* One standalone query per request *)

\* what the rewrite step returned: the completion's trimmed text, or the last
\* turn's content as it is when the completion has no text
Standalone ==
    IF CompletionText(replies[1]) # <<>> THEN CompletionText(replies[1]) ELSE LastContent

\* C26: once the rewrite step has returned, its text is the one that is
\* embedded, the question of the answer call, and the rewritten question that
\* every success response (answer or nothing-found) reports.
C26_OneStandaloneQuery ==
    (Len(replies) >= 1 /\ ~CallThrew(1)) =>
        /\ rewrittenQuestion = Standalone
        /\ calls[2] = EmbedCall(Standalone)
        /\ qVec # <<>> => qVec = Embedding(Standalone)
        /\ \A i \in 1..Len(calls) :
             /\ calls[i].kind = "index" => calls[i].vector = Embedding(Standalone)
             /\ calls[i].kind = "generate" => calls[i].question = Standalone
        /\ \A i \in 1..Len(responses) :
             IsSuccessResponse(responses[i]) =>
                 responses[i].body.rewrittenQuestion = Standalone

\* the rewriter gave no text, so the last turn's content, leading space
\* included, was embedded, asked and reported in the answer response
C26_Witness ==
    /\ Done
    /\ Len(replies) >= 1 /\ ~CallThrew(1)
    /\ CompletionText(replies[1]) = <<>>
    /\ Trim(Standalone) # Standalone
    /\ CountCalls("generate") = 1
    /\ IsSuccessResponse(responses[1]) /\ ~IsNothingFound(responses[1])
    /\ responses[1].body.rewrittenQuestion = Standalone

-----------------------------------------------------------------------------
(* The rewriter alone: conversations of any length *)

\* a conversation of n turns, each with a content of its own, of the given
\* speakers
Talk(speakers) ==
    [k \in 1..Len(speakers) |-> [role |-> speakers[k], content |-> Str(Rep("q", k))]]

TalkInit ==
    /\ pc = "start"
    /\ \E n \in 1..MaxTalk : \E speakers \in [1..n -> Roles] :
         /\ speakers[n] = "user"
         /\ body = [json |-> TRUE, isArray |-> TRUE, messages |-> Talk(speakers)]
    /\ rewrittenQuestion = <<>>
    /\ qVec = <<>>
    /\ docIds = <<>>
    /\ chunkMatches = <<>>
    /\ picked = <<>>
    /\ calls = <<>>
    /\ replies = <<>>
    /\ responses = <<>>
    /\ other = NoRequest
    /\ page = NoPage

TalkNext == Validate \/ RewriteReturns

TalkSpec == TalkInit /\ [][TalkNext]_vars

\* C27: the history sent to the rewrite call is the last min(12, n) turns of
\* the n-turn conversation in their order, so it ends with the latest user
\* turn and holds no turn older than the twelfth most recent.
C27_HistoryIsLastTwelve ==
    calls # <<>> =>
        LET history == calls[1].history
            n == Len(body.messages)
            k == Min(HistoryMax, n)
        IN  /\ calls[1].kind = "rewrite"
            /\ Len(history) = k
            /\ \A i \in 1..k : history[i] = body.messages[n - k + i]
            /\ history[k] = body.messages[n]
            /\ history[k].role = "user"
            /\ \A i \in 1..(n - HistoryMax) : ~InSeq(body.messages[i], history)

\* a conversation of 13 turns: the rewrite call got 12, from the second on
C27_Witness ==
    /\ calls # <<>>
    /\ Len(body.messages) = HistoryMax + 1
    /\ Len(calls[1].history) = HistoryMax
    /\ calls[1].history[1] = body.messages[2]
    /\ ~InSeq(body.messages[1], calls[1].history)

-----------------------------------------------------------------------------
(* The chat page: sendMessage and the fetch it awaits *)

\* what the user may have in the input box
Typed == {<<>>, <<" ">>, <<"q">>, <<" ", "q", "q", " ">>}

\* the first element of useState<Message[]>
Welcome == [role |-> "assistant", content |-> <<"H", "e", "l", "l", "o", "!">>,
            matches |-> <<>>]

\* the state after the first render; inflight holds the bodies of the fetches
\* not settled yet and log what each settled fetch came to
FirstRender ==
    [input |-> <<>>, messages |-> <<Welcome>>, loading |-> FALSE, error |-> Null,
     inflight |-> <<>>, log |-> <<>>]

\* JSON.stringify({ question }) as req.json() reads it: an object with a
\* question and no messages property
FetchBody(question) ==
    [json |-> TRUE, isArray |-> FALSE, messages |-> <<>>, question |-> question]

\* sendMessage without the loading check
sendMessageWhileLoading ==
    /\ Len(page.log) + Len(page.inflight) < MaxAsked
    /\ LET question == Trim(page.input)
       IN  IF question = <<>>
           THEN UNCHANGED page
           ELSE page' = [page EXCEPT
                           !.input = <<>>,
                           !.error = Null,
                           !.loading = TRUE,
                           !.messages = Append(@, [role |-> "user", content |-> question,
                                                   matches |-> <<>>]),
                           !.inflight = Append(@, FetchBody(question))]

\* sendMessage up to its await (page.tsx 81-102), called by Enter or the button
sendMessage ==
    /\ Len(page.log) + Len(page.inflight) < MaxAsked
    /\ LET question == Trim(page.input)
       IN  IF question = <<>> \/ page.loading
           THEN UNCHANGED page
           ELSE page' = [page EXCEPT
                           !.input = <<>>,
                           !.error = Null,
                           !.loading = TRUE,
                           !.messages = Append(@, [role |-> "user", content |-> question,
                                                   matches |-> <<>>]),
                           !.inflight = Append(@, FetchBody(question))]

\* onChange of the input box
Type(text) == text # page.input /\ page' = [page EXCEPT !.input = text]

\* what a fetch comes to: it rejects, or it resolves with a response whose
\* body parses as JSON or does not
Rejected == [kind |-> "rejected"]
Resolved(r, parses) ==
    [kind |-> "resolved", status |-> r.status, parses |-> parses, data |-> r.body]

\* res.ok
Ok(status) == status >= 200 /\ status <= 299

\* 'No answer returned.'
NoAnswerText ==
    <<"N", "o", " ", "a", "n", "s", "w", "e", "r", " ",
      "r", "e", "t", "u", "r", "n", "e", "d", ".">>

\* the message of the Error that sendMessage's try block throws, as its
\* parts; <<>> when nothing is thrown
errorMessage(outcome) ==
    IF outcome.kind = "rejected" THEN <<"Failed to fetch">>
    ELSE IF ~Ok(outcome.status)
    THEN IF outcome.parses /\ "error" \in DOMAIN outcome.data /\ outcome.data.error # ""
         THEN <<outcome.data.error>>
         ELSE <<"Request failed with ", outcome.status>>
    ELSE IF ~outcome.parses THEN <<"Unexpected end of JSON input">>
    ELSE <<>>

\* the assistant message built from a response that is ok
assistantMsg(data) ==
    [role |-> "assistant",
     content |-> IF "answer" \in DOMAIN data /\ data.answer # <<>>
                 THEN data.answer ELSE NoAnswerText,
     matches |-> IF "matches" \in DOMAIN data THEN data.matches ELSE <<>>]

Without(s, i) == SubSeq(s, 1, i - 1) \o SubSeq(s, i + 1, Len(s))

\* sendMessage from its await on (page.tsx 104-123): fetch i settles
Settle(i, outcome) ==
    LET message == errorMessage(outcome)
    IN  page' = [page EXCEPT
                   !.messages = IF message = <<>> THEN Append(@, assistantMsg(outcome.data))
                                ELSE @,
                   !.error = IF message = <<>> THEN @ ELSE Str(message),
                   !.loading = FALSE,
                   !.inflight = Without(@, i),
                   !.log = Append(@, message)]

-----------------------------------------------------------------------------
(* The chat page in front of the route handler *)

\* everything but the page
served == <<pc, body, rewrittenQuestion, qVec, docIds, chunkMatches, picked, calls,
            replies, responses, other>>

WireInit ==
    /\ page = FirstRender
    /\ pc = "idle"
    /\ body = FetchBody(<<>>)
    /\ rewrittenQuestion = <<>>
    /\ qVec = <<>>
    /\ docIds = <<>>
    /\ chunkMatches = <<>>
    /\ picked = <<>>
    /\ calls = <<>>
    /\ replies = <<>>
    /\ responses = <<>>
    /\ other = NoRequest

Typing == (\E text \in Typed : Type(text)) /\ UNCHANGED served

Submit == sendMessage /\ UNCHANGED served

\* the page's fetch reaches POST
Arrive ==
    /\ pc = "idle"
    /\ page.inflight # <<>>
    /\ body' = page.inflight[1]
    /\ pc' = "start"
    /\ UNCHANGED <<page, other, rewrittenQuestion, qVec, docIds, chunkMatches, picked,
                   calls, replies, responses>>

\* POST's response resolves the page's fetch
Deliver ==
    /\ pc = "done"
    /\ Settle(1, Resolved(responses[1], TRUE))
    /\ pc' = "idle"
    /\ calls' = <<>>
    /\ replies' = <<>>
    /\ responses' = <<>>
    /\ UNCHANGED <<other, body, rewrittenQuestion, qVec, docIds, chunkMatches, picked>>

\* of POST only the validation: no body the page sends gets further
WireNext == Typing \/ Submit \/ Arrive \/ Validate \/ Deliver

WireSpec == WireInit /\ [][WireNext]_vars

\* what POST accepts: a non-empty messages array ending in a user turn
Accepted(b) ==
    /\ b.json
    /\ b.isArray
    /\ Len(b.messages) >= 1
    /\ ValidLast(b.messages[Len(b.messages)])

\* C28: every body the chat page submits has the shape POST accepts, so a
\* non-empty question typed in the page passes the validation and the rewrite
\* call is made.
C28_PageRequestAccepted ==
    /\ \A i \in 1..Len(page.inflight) : Accepted(page.inflight[i])
    /\ (pc = "done" /\ Trim(body.question) # <<>>) =>
         /\ responses[1].status # StatusBadRequest
         /\ calls # <<>>

-----------------------------------------------------------------------------
(* The chat page in front of any server *)

\* responses a server may give the page
ServerResponses ==
    {CatchResponse(e) : e \in Thrown}
    \cup {JsonResponse([error |-> "Missing or invalid \"messages\" array in body"],
                       StatusBadRequest),
          NothingFoundResponse(<<"q">>),
          AnswerResponse(<<"q">>, <<>>, <<"q">>),
          AnswerResponse(<<>>, <<>>, <<"q">>)}

Outcomes == {Rejected} \cup {Resolved(r, parses) : r \in ServerResponses, parses \in BOOLEAN}

\* a pending fetch settles and sendMessage runs on from its await
Settles ==
    /\ \E i \in 1..Len(page.inflight) : \E outcome \in Outcomes : Settle(i, outcome)
    /\ UNCHANGED served

PageNext == Typing \/ Submit \/ Settles

PageSpec == WireInit /\ [][PageNext]_vars

Count(s, Test(_)) == Len(SelectSeq(s, Test))

IsUserMsg(m) == m.role = "user"
IsAssistantMsg(m) == m.role = "assistant"
Failed(message) == message # <<>>
Succeeded(message) == message = <<>>

\* C29: the page has at most one request in flight, and loading is true
\* exactly while it is; every user message is a non-blank question that went
\* out as one request; an assistant message is appended for each request that
\* succeeded and for no other; after a request that failed the error text is
\* shown and loading is false again.
C29_OneRequestAtATime ==
    /\ Len(page.inflight) <= 1
    /\ page.loading <=> page.inflight # <<>>
    /\ \A i \in 1..Len(page.messages) :
         IsUserMsg(page.messages[i]) => Trim(page.messages[i].content) # <<>>
    /\ Count(page.messages, IsUserMsg) = Len(page.log) + Len(page.inflight)
    /\ Count(page.messages, IsAssistantMsg) = 1 + Count(page.log, Succeeded)
    /\ page.loading => page.error = Null
    /\ (~page.loading /\ page.log # <<>>) =>
         IF Failed(page.log[Len(page.log)])
         THEN page.error = Str(page.log[Len(page.log)])
         ELSE page.error = Null

\* a request is pending after an earlier one failed, and the user has typed
\* the next question: sendMessage is called and does nothing
C29_Witness ==
    /\ page.loading
    /\ Trim(page.input) # <<>>
    /\ Len(page.log) = 1 /\ Failed(page.log[1])
    /\ Len(page.inflight) = 1
    /\ Count(page.messages, IsAssistantMsg) = 1
    /\ ENABLED Submit

====
